---- MODULE Spec2Model ----
(***************************************************************************)
(* Book Search Application (winapp/ConnectedApp).                          *)
(*                                                                         *)
(* Three threads share one CommonObjects without a lock:                   *)
(*   main           ConnectedApp.cpp  spawns the two tasks, loads the      *)
(*                                    favorites/notes files, joins, saves  *)
(*   DownloadThread DownloadThread.cpp polls start_download and fetches    *)
(*   DrawThread     DrawThread.cpp    one DrawAppWindow call per frame     *)
(*                                                                         *)
(* Every statement of DownloadThread::operator() that touches the shared   *)
(* store is one step; every widget handler of DrawAppWindow is one step.   *)
(* The favorites view is a modal popup (BeginPopupModal): while it is open *)
(* the widgets of the main window take no input.                           *)
(***************************************************************************)
EXTENDS Integers, Sequences, FiniteSets, TLC

\* ---------------------------------------------------------------- bounds
\* longest "docs" array of a response
MaxDocs == 2
\* the checkbox adds a favorite only while the list is shorter than this
MaxFav == 2
\* characters in one key of a favorites file
MaxKeyLen == 2
\* entries of the "authors" array of a work-detail response
MaxAuthors == 2
\* characters of a search text
MaxQueryLen == 2
\* calls of the Remove button in one frame whose answer is drawn; every
\* later call answers false
MaxPresses == 3

\* ------------------------------------------------------------ value sets
Keys == {"k1", "k2"}
Absent == "<absent>"
Null == "<null>"
NoNote == "<none>"
\* "n1" is a note of an earlier run, "n2" a note typed in this run
NoteVals == {"n1", "n2"}
TypedNotes == {"n2"}
\* what the user can have typed in the search box
Queries == {"q1"}
\* positions of the "Results per page" slider the user moves it to
SliderStops == {5, 50}
NoBook == [key |-> Absent, title |-> Absent, is_favorite |-> FALSE,
           notes |-> [k \in Keys |-> NoNote], author_names |-> <<>>]
NoResp == [kind |-> "idle", hasDocs |-> FALSE, docs |-> <<>>]

\* one element of the "docs" array: a field is a string, null or missing
DocSet ==
  {[key |-> k, title |-> "T"] : k \in Keys \cup {Absent, Null}}
    \cup {[key |-> "k1", title |-> t] : t \in {Absent, Null}}

RECURSIVE SeqsUpTo(_, _)
SeqsUpTo(S, n) ==
  IF n = 0 THEN {<<>>}
  ELSE LET shorter == SeqsUpTo(S, n - 1)
       IN shorter \cup {Append(s, x) : s \in {t \in shorter : Len(t) = n - 1}, x \in S}

\* what cli.Get + json::parse can hand to the download thread
Responses ==
  {[kind |-> kd, hasDocs |-> FALSE, docs |-> <<>>] :
      kd \in {"none", "non200", "badjson", "throw", "ok"}}
    \cup {[kind |-> "ok", hasDocs |-> TRUE, docs |-> d] : d \in SeqsUpTo(DocSet, MaxDocs)}

\* contents of data/favorites.txt and data/notes.json left by an earlier run
InitFavFile == <<"k1">>
InitNotesFile == [k \in Keys |-> IF k = "k1" THEN "n1" ELSE NoNote]

VARIABLES
  exit_flag, start_download, data_ready,   \* CommonObjects signal flags
  books, favorite_books, saved_notes,      \* CommonObjects containers
  mpc, favFile, notesFile,                 \* main: position, the two data files
  dpc, resp, di, cur,                      \* DownloadThread: position, res, loop index, Book book
  gpc, favOpen, needs_refresh, favorite_books_list, \* DrawThread / DrawAppWindow statics
  search_query, search_type,               \* CommonObjects request parameters
  results_per_page, current_page,
  note_buffers,                            \* keys that have an edit buffer (file static)
  query_pending,                           \* search_query was written and no fetch has read it since
  fn                                       \* the pure function under test: call, inputs, result

vars == <<exit_flag, start_download, data_ready, books, favorite_books, saved_notes,
          mpc, favFile, notesFile, dpc, resp, di, cur,
          gpc, favOpen, needs_refresh, favorite_books_list,
          search_query, search_type, results_per_page, current_page, note_buffers,
          query_pending, fn>>

\* the program's own state
progVars == <<exit_flag, start_download, data_ready, books, favorite_books, saved_notes,
              mpc, favFile, notesFile, dpc, resp, di, cur,
              gpc, favOpen, needs_refresh, favorite_books_list,
              search_query, search_type, results_per_page, current_page, note_buffers,
              query_pending>>

FnIdle == [op |-> "idle"]

sharedVars == <<exit_flag, start_download, data_ready, books, favorite_books, saved_notes>>
mainVars == <<mpc, favFile, notesFile>>
downVars == <<dpc, resp, di, cur>>
drawVars == <<gpc, favOpen, needs_refresh, favorite_books_list>>
paramVars == <<search_query, search_type, results_per_page, current_page>>
uiVars == <<paramVars, note_buffers, query_pending>>

\* ----------------------------------------------------------- pure helpers
Range(s) == {s[i] : i \in DOMAIN s}

Contains(s, x) == \E i \in DOMAIN s : s[i] = x

\* std::find: index of the first occurrence, 0 for end()
Find(s, x) == IF Contains(s, x) THEN CHOOSE i \in DOMAIN s : s[i] = x /\ \A j \in 1..(i - 1) : s[j] # x
              ELSE 0

\* vector::erase(begin() + i - 1)
EraseAt(s, i) == SubSeq(s, 1, i - 1) \o SubSeq(s, i + 1, Len(s))

BookKeys(bs) == [i \in DOMAIN bs |-> bs[i].key]

\* index of the first Book with the key, 0 if none
FindBook(bs, k) == Find(BookKeys(bs), k)

\* doc.contains("key") && doc.contains("title")
DocHasFields(doc) == doc.key # Absent /\ doc.title # Absent

\* get<std::string>() throws json::type_error on a null
DocThrows(doc) == doc.key = Null \/ doc.title = Null

\* the Book built from a doc that has passed both tests
MakeBook(doc, favs, notes) ==
  [key |-> doc.key, title |-> doc.title,
   is_favorite |-> Contains(favs, doc.key),
   notes |-> [k \in Keys |-> IF k = doc.key THEN notes[doc.key] ELSE NoNote],
   author_names |-> <<>>]

\* ------------------------------------------------------------------ Init
Init ==
  /\ exit_flag = FALSE /\ start_download = FALSE /\ data_ready = FALSE
  /\ books = <<>> /\ favorite_books = <<>>
  /\ saved_notes = [k \in Keys |-> NoNote]
  /\ mpc = "spawn_draw"
  /\ favFile = InitFavFile
  /\ notesFile = InitNotesFile
  /\ dpc = "unborn" /\ resp = NoResp /\ di = 0 /\ cur = NoBook
  /\ gpc = "unborn" /\ favOpen = FALSE /\ needs_refresh = TRUE
  /\ favorite_books_list = <<>>
  /\ search_query = "" /\ search_type = "title"
  /\ results_per_page = 10 /\ current_page = 1
  /\ note_buffers = {}
  /\ query_pending = FALSE
  /\ fn = FnIdle

\* ------------------------------------------------------------------ main
MainSpawnDraw ==
  /\ mpc = "spawn_draw"
  /\ mpc' = "spawn_down"
  /\ gpc' = "frames"
  /\ UNCHANGED <<fn, uiVars, sharedVars, favFile, notesFile, downVars, favOpen, needs_refresh, favorite_books_list>>

MainSpawnDown ==
  /\ mpc = "spawn_down"
  /\ mpc' = "set_page"
  /\ dpc' = "poll"
  /\ UNCHANGED <<fn, uiVars, sharedVars, favFile, notesFile, resp, di, cur, drawVars>>

\* common.results_per_page = 10; common.current_page = 1, after the spawns
MainSetPage ==
  /\ mpc = "set_page"
  /\ results_per_page' = 10
  /\ current_page' = 1
  /\ mpc' = "load_fav"
  /\ UNCHANGED <<fn, query_pending, search_query, search_type, note_buffers, sharedVars, favFile, notesFile,
                 downVars, drawVars>>

MainLoadFavorites ==
  /\ mpc = "load_fav"
  /\ favorite_books' = favorite_books \o SelectSeq(favFile, LAMBDA line : line # "")
  /\ mpc' = "load_notes"
  /\ UNCHANGED <<fn, uiVars, exit_flag, start_download, data_ready, books, saved_notes,
                 favFile, notesFile, downVars, drawVars>>

MainLoadNotes ==
  /\ mpc = "load_notes"
  /\ saved_notes' = [k \in Keys |-> IF notesFile[k] # NoNote THEN notesFile[k] ELSE saved_notes[k]]
  /\ mpc' = "join_down"
  /\ UNCHANGED <<fn, uiVars, exit_flag, start_download, data_ready, books, favorite_books,
                 favFile, notesFile, downVars, drawVars>>

\* a main that does not wait for the download task
MainJoinDown_NoWait ==
  /\ mpc = "join_down"
  /\ mpc' = "join_draw"
  /\ UNCHANGED <<fn, uiVars, sharedVars, favFile, notesFile, downVars, drawVars>>

MainJoinDown ==
  /\ mpc = "join_down"
  /\ dpc = "done"
  /\ mpc' = "join_draw"
  /\ UNCHANGED <<fn, uiVars, sharedVars, favFile, notesFile, downVars, drawVars>>

MainJoinDraw ==
  /\ mpc = "join_draw"
  /\ gpc = "done"
  /\ mpc' = "save_fav"
  /\ UNCHANGED <<fn, uiVars, sharedVars, favFile, notesFile, downVars, drawVars>>

MainSaveFavorites ==
  /\ mpc = "save_fav"
  /\ \E is_open \in BOOLEAN :
       favFile' = IF is_open THEN favorite_books ELSE favFile
  /\ mpc' = "save_notes"
  /\ UNCHANGED <<fn, uiVars, sharedVars, notesFile, downVars, drawVars>>

MainSaveNotes ==
  /\ mpc = "save_notes"
  /\ \E is_open \in BOOLEAN :
       notesFile' = IF is_open THEN saved_notes ELSE notesFile
  /\ mpc' = "done"
  /\ UNCHANGED <<fn, uiVars, sharedVars, favFile, downVars, drawVars>>

MainNext ==
  \/ MainSpawnDraw \/ MainSpawnDown \/ MainSetPage \/ MainLoadFavorites \/ MainLoadNotes
  \/ MainJoinDown \/ MainJoinDraw \/ MainSaveFavorites \/ MainSaveNotes

\* -------------------------------------------------------- DownloadThread
\* a loop that tests the exit flag only when no download is requested
DlCheckExit_OnlyWhenIdle ==
  /\ dpc = "poll"
  /\ exit_flag
  /\ ~start_download
  /\ dpc' = "done"
  /\ UNCHANGED <<fn, uiVars, sharedVars, mainVars, resp, di, cur, drawVars>>

\* while (!common.exit_flag): the loop test that ends the task
DlCheckExit ==
  /\ dpc = "poll"
  /\ exit_flag
  /\ dpc' = "done"
  /\ UNCHANGED <<fn, uiVars, sharedVars, mainVars, resp, di, cur, drawVars>>

\* if (common.start_download): the poll that finds the flag raised
DlObserve ==
  /\ dpc = "poll"
  /\ ~exit_flag
  /\ start_download
  /\ dpc' = "request"
  /\ UNCHANGED <<fn, uiVars, sharedVars, mainVars, resp, di, cur, drawVars>>

\* a fetch whose error branches go back to the poll without clearing the flag
DlGet_FailureSkipsClear ==
  /\ dpc = "request"
  /\ \E r \in Responses :
       IF r.kind = "ok"
       THEN /\ resp' = r
            /\ books' = <<>>
            /\ di' = 1
            /\ dpc' = "docs"
       ELSE /\ resp' = NoResp
            /\ books' = books
            /\ di' = di
            /\ dpc' = "poll"
  /\ query_pending' = FALSE
  /\ UNCHANGED <<fn, paramVars, note_buffers, exit_flag, start_download, data_ready,
                 favorite_books, saved_notes, mainVars, cur, drawVars>>

\* url_encode(common.search_query) and the path, cli.Get, the status
\* test, json::parse and books.clear()
DlGet ==
  /\ dpc = "request"
  /\ \E r \in Responses :
       IF r.kind = "ok"
       THEN /\ resp' = r
            /\ books' = <<>>
            /\ di' = 1
            /\ dpc' = "docs"
       ELSE /\ resp' = NoResp
            /\ books' = books
            /\ di' = di
            /\ dpc' = "clearflag"
  /\ query_pending' = FALSE
  /\ UNCHANGED <<fn, paramVars, note_buffers, exit_flag, start_download, data_ready,
                 favorite_books, saved_notes, mainVars, cur, drawVars>>

\* a docs loop that asks the server again when a doc throws
DlDoc_ThrowRetries ==
  /\ dpc = "docs"
  /\ resp.hasDocs
  /\ di <= Len(resp.docs)
  /\ LET doc == resp.docs[di]
     IN IF ~DocHasFields(doc)
        THEN /\ di' = di + 1
             /\ dpc' = dpc
             /\ cur' = cur
             /\ resp' = resp
        ELSE IF DocThrows(doc)
        THEN /\ di' = 0
             /\ dpc' = "request"
             /\ cur' = cur
             /\ resp' = NoResp
        ELSE /\ di' = di
             /\ dpc' = "push"
             /\ cur' = MakeBook(doc, favorite_books, saved_notes)
             /\ resp' = resp
  /\ UNCHANGED <<fn, uiVars, sharedVars, mainVars, drawVars>>

\* one iteration of the docs loop up to (not including) push_back
DlDoc ==
  /\ dpc = "docs"
  /\ resp.hasDocs
  /\ di <= Len(resp.docs)
  /\ LET doc == resp.docs[di]
     IN IF ~DocHasFields(doc)
        THEN /\ di' = di + 1
             /\ dpc' = dpc
             /\ cur' = cur
             /\ resp' = resp
        ELSE IF DocThrows(doc)
        THEN /\ di' = 0
             /\ dpc' = "clearflag"
             /\ cur' = cur
             /\ resp' = NoResp
        ELSE /\ di' = di
             /\ dpc' = "push"
             /\ cur' = MakeBook(doc, favorite_books, saved_notes)
             /\ resp' = resp
  /\ UNCHANGED <<fn, uiVars, sharedVars, mainVars, drawVars>>

\* common.books.push_back(book)
DlPush ==
  /\ dpc = "push"
  /\ books' = Append(books, cur)
  /\ cur' = NoBook
  /\ di' = di + 1
  /\ dpc' = "docs"
  /\ UNCHANGED <<fn, uiVars, exit_flag, start_download, data_ready, favorite_books, saved_notes,
                 mainVars, resp, drawVars>>

\* common.data_ready = true, after the loop or when "docs" is missing
DlReady ==
  /\ dpc = "docs"
  /\ (~resp.hasDocs \/ di > Len(resp.docs))
  /\ data_ready' = TRUE
  /\ dpc' = "clearflag"
  /\ resp' = NoResp
  /\ di' = 0
  /\ UNCHANGED <<fn, uiVars, exit_flag, start_download, books, favorite_books, saved_notes,
                 mainVars, cur, drawVars>>

\* an end of iteration that lowers data ready together with start download
DlClearFlag_ResetsReady ==
  /\ dpc = "clearflag"
  /\ start_download' = FALSE
  /\ data_ready' = FALSE
  /\ dpc' = "poll"
  /\ UNCHANGED <<fn, uiVars, exit_flag, books, favorite_books, saved_notes,
                 mainVars, resp, di, cur, drawVars>>

\* common.start_download = false, then the 100ms sleep
DlClearFlag ==
  /\ dpc = "clearflag"
  /\ start_download' = FALSE
  /\ dpc' = "poll"
  /\ UNCHANGED <<fn, uiVars, exit_flag, data_ready, books, favorite_books, saved_notes,
                 mainVars, resp, di, cur, drawVars>>

DownloadNext ==
  \/ DlCheckExit \/ DlObserve \/ DlGet \/ DlDoc \/ DlPush \/ DlReady \/ DlClearFlag

\* ------------------------------------------------------------ DrawThread
\* one entry of the "authors" array of a work-detail response, with the
\* fate of its author-detail request:
\*   "noref"  the entry has no "author" member
\*   "badkey" its "author" has a null "key": get<std::string>() throws
\*   "ok"     the request answers 200 with a body that has a "name"
\*   "fail"   the request fails, or answers another status, or its body
\*            does not parse
AuthorOutcomes == {"noref", "badkey", "ok", "fail"}

\* what the work-detail request of one key comes to: "fail" is no answer,
\* another status or a body that does not parse; a parsed body has a title
\* or not, and its authors
WorkOutcomes ==
  {[status |-> "fail", hasTitle |-> FALSE, authors |-> <<>>]}
    \cup {[status |-> "ok", hasTitle |-> t, authors |-> a] :
            t \in BOOLEAN, a \in SeqsUpTo(AuthorOutcomes, MaxAuthors)}

\* the work-detail responses of works that list no author: the ones the
\* server sends while the three threads run together
PlainWorkOutcomes == {o \in WorkOutcomes : o.authors = <<>>}

\* the requests of a refresh, as logged in order
WorkReq(key) == [kind |-> "work", key |-> key, author |-> 0]
AuthorReq(key, j) == [kind |-> "author", key |-> key, author |-> j]

\* the "name" of the j-th author of the work
AuthorName(key, j) == <<key, j>>

\* the Book assembled from a work-detail response and the author names
DetailBook(k, names) ==
  [key |-> k, title |-> "T", is_favorite |-> TRUE, notes |-> [j \in Keys |-> NoNote],
   author_names |-> names]

\* an authors loop in which a failed author-detail request throws
RECURSIVE WalkAuthors_FailThrows(_, _, _, _, _)
WalkAuthors_FailThrows(key, authors, j, names, reqs) ==
  IF j > Len(authors) THEN [thrown |-> FALSE, names |-> names, reqs |-> reqs]
  ELSE CASE authors[j] = "noref" -> WalkAuthors_FailThrows(key, authors, j + 1, names, reqs)
         [] authors[j] = "badkey" -> [thrown |-> TRUE, names |-> names, reqs |-> reqs]
         [] authors[j] = "ok" ->
              WalkAuthors_FailThrows(key, authors, j + 1, Append(names, AuthorName(key, j)),
                                     Append(reqs, AuthorReq(key, j)))
         [] authors[j] = "fail" ->
              [thrown |-> TRUE, names |-> names, reqs |-> Append(reqs, AuthorReq(key, j))]

\* for (const auto& author : json_result["authors"]), from entry j on:
\* the names pushed, the requests issued, and whether the loop threw
RECURSIVE WalkAuthors(_, _, _, _, _)
WalkAuthors(key, authors, j, names, reqs) ==
  IF j > Len(authors) THEN [thrown |-> FALSE, names |-> names, reqs |-> reqs]
  ELSE CASE authors[j] = "noref" -> WalkAuthors(key, authors, j + 1, names, reqs)
         [] authors[j] = "badkey" -> [thrown |-> TRUE, names |-> names, reqs |-> reqs]
         [] authors[j] = "ok" ->
              WalkAuthors(key, authors, j + 1, Append(names, AuthorName(key, j)),
                          Append(reqs, AuthorReq(key, j)))
         [] authors[j] = "fail" ->
              WalkAuthors(key, authors, j + 1, names, Append(reqs, AuthorReq(key, j)))

\* a loop that also skips every key it has already asked about
RECURSIVE ResolveMissing_AskOnce(_, _, _, _)
ResolveMissing_AskOnce(list, reqs, favs, out) ==
  IF favs = <<>> THEN [list |-> list, reqs |-> reqs]
  ELSE LET key == Head(favs)
       IN IF FindBook(list, key) # 0 \/ Contains(reqs, WorkReq(key))
          THEN ResolveMissing_AskOnce(list, reqs, Tail(favs), out)
          ELSE LET asked == Append(reqs, WorkReq(key))
               IN IF out[key].status = "fail" \/ ~out[key].hasTitle
                  THEN ResolveMissing_AskOnce(list, asked, Tail(favs), out)
                  ELSE LET w == WalkAuthors(key, out[key].authors, 1, <<>>, asked)
                       IN IF w.thrown
                          THEN ResolveMissing_AskOnce(list, w.reqs, Tail(favs), out)
                          ELSE ResolveMissing_AskOnce(Append(list, DetailBook(key, w.names)),
                                                      w.reqs, Tail(favs), out)

\* the loop over common->favorite_books of the refresh; out[key] is what
\* the work-detail request of the key comes to
RECURSIVE ResolveMissing(_, _, _, _)
ResolveMissing(list, reqs, favs, out) ==
  IF favs = <<>> THEN [list |-> list, reqs |-> reqs]
  ELSE LET key == Head(favs)
       IN IF FindBook(list, key) # 0 THEN ResolveMissing(list, reqs, Tail(favs), out)
          ELSE LET asked == Append(reqs, WorkReq(key))
               IN IF out[key].status = "fail" \/ ~out[key].hasTitle
                  THEN ResolveMissing(list, asked, Tail(favs), out)
                  ELSE LET w == WalkAuthors(key, out[key].authors, 1, <<>>, asked)
                       IN IF w.thrown
                          THEN ResolveMissing(list, w.reqs, Tail(favs), out)
                          ELSE ResolveMissing(Append(list, DetailBook(key, w.names)),
                                              w.reqs, Tail(favs), out)

IsFavorite(b) == b.is_favorite

\* the seeding loop: the Books of common->books that have the flag
SeedList(bs) == SelectSeq(bs, IsFavorite)

\* the favorite keys the seeding leaves without a row
MissingKeys(bs, favs) == {k \in Range(favs) : FindBook(SeedList(bs), k) = 0}

\* if (needs_refresh) { ... }: seed from common->books, then resolve the rest
RefreshList(bs, favs, out) == ResolveMissing(SeedList(bs), <<>>, favs, out)

\* a submit that flips the flag instead of raising it
DrawSubmitSearch_Toggle ==
  /\ gpc = "frames"
  /\ ~favOpen
  /\ \E q \in Queries : search_query' = q
  /\ query_pending' = TRUE
  /\ start_download' = ~start_download
  /\ UNCHANGED <<fn, search_type, results_per_page, current_page, note_buffers, exit_flag, data_ready, books, favorite_books, saved_notes,
                 mainVars, downVars, drawVars>>

\* Enter in the search box, or the Search button
DrawSubmitSearch ==
  /\ gpc = "frames"
  /\ ~favOpen
  /\ \E q \in Queries : search_query' = q
  /\ query_pending' = TRUE
  /\ start_download' = TRUE
  /\ UNCHANGED <<fn, search_type, results_per_page, current_page, note_buffers, exit_flag, data_ready, books, favorite_books, saved_notes,
                 mainVars, downVars, drawVars>>

\* the Show Favorites button: the modal opens and refreshes in this frame
DrawShowFavorites ==
  /\ gpc = "frames"
  /\ ~favOpen
  /\ favOpen' = TRUE
  /\ IF needs_refresh
     THEN \E out \in [MissingKeys(books, favorite_books) -> PlainWorkOutcomes] :
            favorite_books_list' = RefreshList(books, favorite_books, out).list
     ELSE favorite_books_list' = favorite_books_list
  /\ needs_refresh' = FALSE
  /\ UNCHANGED <<fn, uiVars, sharedVars, mainVars, downVars, gpc>>

\* a Remove that also asks for a refresh in the next frame
DrawRemoveFavorite_Invalidates(i) ==
  /\ gpc = "frames"
  /\ favOpen
  /\ i \in DOMAIN favorite_books_list
  /\ LET key == favorite_books_list[i].key
         fav_it == Find(favorite_books, key)
         b == FindBook(books, key)
     IN IF fav_it # 0
        THEN /\ favorite_books' = EraseAt(favorite_books, fav_it)
             /\ books' = IF b # 0 THEN [books EXCEPT ![b].is_favorite = FALSE] ELSE books
             /\ favorite_books_list' = EraseAt(favorite_books_list, i)
             /\ needs_refresh' = TRUE
        ELSE UNCHANGED <<favorite_books, books, favorite_books_list, needs_refresh>>
  /\ UNCHANGED <<fn, uiVars, exit_flag, start_download, data_ready, saved_notes,
                 mainVars, downVars, gpc, favOpen>>

\* the Remove button of row i of the favorites table
DrawRemoveFavorite(i) ==
  /\ gpc = "frames"
  /\ favOpen
  /\ i \in DOMAIN favorite_books_list
  /\ LET key == favorite_books_list[i].key
         fav_it == Find(favorite_books, key)
         b == FindBook(books, key)
     IN IF fav_it # 0
        THEN /\ favorite_books' = EraseAt(favorite_books, fav_it)
             /\ books' = IF b # 0 THEN [books EXCEPT ![b].is_favorite = FALSE] ELSE books
             /\ favorite_books_list' = EraseAt(favorite_books_list, i)
        ELSE UNCHANGED <<favorite_books, books, favorite_books_list>>
  /\ UNCHANGED <<fn, uiVars, exit_flag, start_download, data_ready, saved_notes,
                 mainVars, downVars, gpc, favOpen, needs_refresh>>

\* the Close button of the favorites modal
DrawCloseFavorites ==
  /\ gpc = "frames"
  /\ favOpen
  /\ needs_refresh' = TRUE
  /\ favOpen' = FALSE
  /\ UNCHANGED <<fn, uiVars, sharedVars, mainVars, downVars, gpc, favorite_books_list>>

\* the favorite checkbox of row i of the results table
DrawToggleFavorite(i) ==
  /\ gpc = "frames"
  /\ ~favOpen
  /\ data_ready /\ books # <<>>
  /\ i \in DOMAIN books
  /\ LET key == books[i].key
         it == Find(favorite_books, key)
     IN /\ books' = [books EXCEPT ![i].is_favorite = ~books[i].is_favorite]
        /\ IF ~books[i].is_favorite
           THEN /\ Len(favorite_books) < MaxFav
                /\ favorite_books' = Append(favorite_books, key)
           ELSE favorite_books' = IF it # 0 THEN EraseAt(favorite_books, it) ELSE favorite_books
  /\ UNCHANGED <<fn, uiVars, exit_flag, start_download, data_ready, saved_notes,
                 mainVars, downVars, drawVars>>

\* the search type Combo: the user picks an entry
DrawSetSearchType ==
  /\ gpc = "frames"
  /\ ~favOpen
  /\ \E choice \in {0, 1} : search_type' = IF choice = 0 THEN "title" ELSE "author"
  /\ UNCHANGED <<fn, query_pending, search_query, results_per_page, current_page, note_buffers,
                 sharedVars, mainVars, downVars, drawVars>>

\* the "Results per page" slider, bound to common->results_per_page
DrawSlideResults ==
  /\ gpc = "frames"
  /\ ~favOpen
  /\ \E v \in SliderStops : results_per_page' = v
  /\ UNCHANGED <<fn, query_pending, search_query, search_type, current_page, note_buffers,
                 sharedVars, mainVars, downVars, drawVars>>

\* the Notes button of row i of the results table: the first press for a
\* key creates its buffer, from the Book's overlay, else from saved_notes
\* (and then the overlay gets a copy), else empty
DrawOpenNotes(i) ==
  /\ gpc = "frames"
  /\ ~favOpen
  /\ data_ready /\ books # <<>>
  /\ i \in DOMAIN books
  /\ LET key == books[i].key
     IN /\ note_buffers' = note_buffers \cup {key}
        /\ books' = IF /\ key \notin note_buffers
                       /\ books[i].notes[key] = NoNote
                       /\ saved_notes[key] # NoNote
                    THEN [books EXCEPT ![i].notes[key] = saved_notes[key]]
                    ELSE books
  /\ UNCHANGED <<fn, query_pending, paramVars, exit_flag, start_download, data_ready, favorite_books,
                 saved_notes, mainVars, downVars, drawVars>>

\* typing in the note popup of row i, which the Notes button has opened:
\* the typed text goes to the Book's overlay and to saved_notes
DrawEditNote(i) ==
  /\ gpc = "frames"
  /\ ~favOpen
  /\ data_ready /\ books # <<>>
  /\ i \in DOMAIN books
  /\ books[i].key \in note_buffers
  /\ \E note \in TypedNotes :
       /\ books' = [books EXCEPT ![i].notes[books[i].key] = note]
       /\ saved_notes' = [saved_notes EXCEPT ![books[i].key] = note]
  /\ UNCHANGED <<fn, uiVars, exit_flag, start_download, data_ready, favorite_books,
                 mainVars, downVars, drawVars>>

\* the window closes: GuiMain returns. DrawAppWindow is never called again,
\* so the popup is gone and its function statics are dead: they are put
\* back to their initial values, which no later step reads.
DrawWindowClose ==
  /\ gpc = "frames"
  /\ gpc' = "closed"
  /\ favOpen' = FALSE /\ needs_refresh' = TRUE /\ favorite_books_list' = <<>>
  /\ note_buffers' = {}
  /\ UNCHANGED <<fn, query_pending, paramVars, sharedVars, mainVars, downVars>>

\* common.exit_flag = true, the last statement of the task
DrawSetExit ==
  /\ gpc = "closed"
  /\ exit_flag' = TRUE
  /\ gpc' = "done"
  /\ UNCHANGED <<fn, uiVars, start_download, data_ready, books, favorite_books, saved_notes,
                 mainVars, downVars, favOpen, needs_refresh, favorite_books_list>>

\* the main window and the end of the task
DrawMainNext ==
  \/ DrawSubmitSearch
  \/ (\E i \in 1..MaxDocs : DrawToggleFavorite(i))
  \/ DrawWindowClose \/ DrawSetExit

\* the favorites view
DrawFavNext ==
  \/ DrawShowFavorites \/ DrawCloseFavorites
  \/ (\E i \in 1..(MaxDocs + Cardinality(Keys)) : DrawRemoveFavorite(i))

DrawNext == DrawMainNext \/ DrawFavNext

\* --------------------------------------------------------- specification
Next == MainNext \/ DownloadNext \/ DrawNext

\* the user searches, ticks favorites and works in the favorites view,
\* and leaves the notes and the parameter widgets alone
Spec == Init /\ [][Next]_vars

\* the user searches, ticks favorites and edits notes, and leaves the
\* favorites view and the parameter widgets alone
DrawNoteNext ==
  \/ (\E i \in 1..MaxDocs : DrawOpenNotes(i))
  \/ (\E i \in 1..MaxDocs : DrawEditNote(i))

NoteNext == MainNext \/ DownloadNext \/ DrawMainNext \/ DrawNoteNext

NoteSpec == Init /\ [][NoteNext]_vars

\* the user searches, ticks favorites and moves the search type and page
\* size widgets, and leaves the favorites view and the notes alone
DrawParamNext == DrawSetSearchType \/ DrawSlideResults

ParamNext == MainNext \/ DownloadNext \/ DrawMainNext \/ DrawParamNext

ParamSpec == Init /\ [][ParamNext]_vars

\* the scheduler runs every thread that can run; GuiMain's user is not
\* obliged to do anything
LiveSpec ==
  /\ Spec
  /\ WF_vars(MainNext)
  /\ WF_vars(DownloadNext)
  /\ WF_vars(DrawSetExit)

TypeOK ==
  /\ exit_flag \in BOOLEAN /\ start_download \in BOOLEAN /\ data_ready \in BOOLEAN
  /\ mpc \in {"spawn_draw", "spawn_down", "set_page", "load_fav", "load_notes", "join_down",
              "join_draw", "save_fav", "save_notes", "done"}
  /\ dpc \in {"unborn", "poll", "request", "docs", "push", "clearflag", "done"}
  /\ gpc \in {"unborn", "frames", "closed", "done"}
  /\ Len(books) <= MaxDocs
  /\ \A i \in DOMAIN books : books[i].key \in Keys
  /\ search_query \in Queries \cup {""} /\ search_type \in {"title", "author"}
  /\ results_per_page \in SliderStops \cup {10} /\ current_page = 1
  /\ note_buffers \subseteq Keys /\ query_pending \in BOOLEAN

\* ------------------------------------------------ the steps as functions
\* Each step below is applied once, to inputs drawn from bounded sets; fn
\* records the inputs and what the step computed from them.
\* Texts are sequences of characters, so that what a step writes and what
\* the next one reads can differ.
NL == "\n"

KeyChars == {"a", NL}

\* a key of the favorites vector: any std::string, the empty one included
KeyTexts == UNION {[1..n -> KeyChars] : n \in 0..MaxKeyLen}

FavLists == UNION {[1..n -> KeyTexts] : n \in 0..MaxFav}

\* save_favorites << book_key << "\n", for each key in order
RECURSIVE SaveFavoritesText(_)
SaveFavoritesText(favs) ==
  IF favs = <<>> THEN <<>>
  ELSE Head(favs) \o <<NL>> \o SaveFavoritesText(Tail(favs))

\* position of the first line feed, 0 if there is none
FirstNL(text) ==
  IF \E i \in DOMAIN text : text[i] = NL
  THEN CHOOSE i \in DOMAIN text : text[i] = NL /\ \A j \in 1..(i - 1) : text[j] # NL
  ELSE 0

\* while (std::getline(file, line)): the lines in order; an unterminated
\* last line counts, an empty remainder ends the loop
RECURSIVE GetLines(_)
GetLines(text) ==
  IF text = <<>> THEN <<>>
  ELSE LET n == FirstNL(text)
       IN IF n = 0 THEN <<text>>
          ELSE <<SubSeq(text, 1, n - 1)>> \o GetLines(SubSeq(text, n + 1, Len(text)))

NonEmptyLine(line) == line # <<>>

\* the load loop on an empty favorites vector: non-empty lines are pushed
LoadFavoritesText(text) == SelectSeq(GetLines(text), NonEmptyLine)

\* save the list, then load what was written
FnRoundTrip ==
  /\ fn = FnIdle
  /\ \E favs \in FavLists :
       LET text == SaveFavoritesText(favs)
       IN fn' = [op |-> "roundtrip", favs |-> favs, text |-> text,
                 out |-> LoadFavoritesText(text)]
  /\ UNCHANGED progVars

\* result lists a refresh can find: Books with either flag
FlagBooks ==
  {[key |-> k, title |-> "T", is_favorite |-> f, notes |-> [j \in Keys |-> NoNote],
    author_names |-> <<>>] : k \in Keys, f \in BOOLEAN}

\* one refresh of the favorites view, with the requests it issues
FnRefresh ==
  /\ fn = FnIdle
  /\ \E bs \in SeqsUpTo(FlagBooks, MaxDocs), favs \in SeqsUpTo(Keys, MaxFav) :
       \E out \in [MissingKeys(bs, favs) -> WorkOutcomes] :
          LET r == RefreshList(bs, favs, out)
          IN fn' = [op |-> "refresh", bs |-> bs, favs |-> favs, out |-> out,
                    list |-> r.list, reqs |-> r.reqs]
  /\ UNCHANGED progVars

\* characters a search text is made of here, with their codes
QueryChars == {"a", "7", "-", " ", "&"}

CharCode == [c \in QueryChars |->
               CASE c = "a" -> 97 [] c = "7" -> 55 [] c = "-" -> 45
                 [] c = " " -> 32 [] c = "&" -> 38]

QueryTexts == UNION {[1..n -> QueryChars] : n \in 0..MaxQueryLen}

\* isalnum(c)
IsAlnum(c) == c \in {"a", "7"}

\* url_encode: a kept character is copied; any other one becomes '%',
\* then std::string(2, '0'), then the character itself
RECURSIVE UrlEncode(_)
UrlEncode(value) ==
  IF value = <<>> THEN <<>>
  ELSE LET c == Head(value)
       IN (IF IsAlnum(c) \/ c \in {"-", "_", ".", "~"} THEN <<c>>
           ELSE <<"%", "0", "0", c>>) \o UrlEncode(Tail(value))

FieldsList ==
  "&fields=key,title,author_name,first_publish_year,edition_count,cover_i,language,subject,want_to_read_count,currently_reading_count,already_read_count"

\* the path of the search request, piece by piece
BuildPath(query, type, per_page, page) ==
  <<"/search.json?", IF type = "title" THEN "title=" ELSE "author=">>
    \o UrlEncode(query)
    \o <<"&limit=", ToString(per_page), "&page=", ToString(page), FieldsList>>

\* the path of one fetch, from the parameters it reads
FnBuildPath ==
  /\ fn = FnIdle
  /\ \E query \in QueryTexts, type \in {"title", "author"},
        per_page \in SliderStops \cup {10}, page \in {1} :
       fn' = [op |-> "path", query |-> query, search_type |-> type,
              results_per_page |-> per_page, current_page |-> page,
              path |-> BuildPath(query, type, per_page, page)]
  /\ UNCHANGED progVars

\* the docs loop from a doc sequence on: a doc without "key" or "title" is
\* skipped, a null in either throws out of the loop, any other doc is
\* pushed as a Book
RECURSIVE BuildDocs(_, _, _, _)
BuildDocs(list, docs, favs, notes) ==
  IF docs = <<>> THEN list
  ELSE LET doc == Head(docs)
       IN IF ~DocHasFields(doc) THEN BuildDocs(list, Tail(docs), favs, notes)
          ELSE IF DocThrows(doc) THEN list
          ELSE BuildDocs(Append(list, MakeBook(doc, favs, notes)), Tail(docs), favs, notes)

\* a fetch that does not clear the result list first
FetchList_NoClear(bs, r, favs, notes) ==
  IF r.kind # "ok" THEN bs
  ELSE IF ~r.hasDocs THEN bs
  ELSE BuildDocs(bs, r.docs, favs, notes)

\* the result list one fetch leaves, from the list it finds, the response,
\* and the favorites and notes it reads: without a parsed 200 response the
\* list is left alone, else it is cleared and rebuilt
FetchList(bs, r, favs, notes) ==
  IF r.kind # "ok" THEN bs
  ELSE IF ~r.hasDocs THEN <<>>
  ELSE BuildDocs(<<>>, r.docs, favs, notes)

\* notes mappings a fetch can find
NoteMaps == {[k \in Keys |-> NoNote], InitNotesFile}

\* result lists a first fetch can find
EarlierLists == {bs \in SeqsUpTo(FlagBooks, MaxDocs) : Len(bs) <= 1}

\* two fetches of the same response, the second finding the list the first
\* left and the favorites and notes of its own time
FnFetchTwice ==
  /\ fn = FnIdle
  /\ \E bs \in EarlierLists, r \in Responses,
        favs1 \in SeqsUpTo(Keys, MaxFav), favs2 \in SeqsUpTo(Keys, MaxFav),
        notes1 \in NoteMaps, notes2 \in NoteMaps :
       LET first == FetchList(bs, r, favs1, notes1)
       IN fn' = [op |-> "fetch2", bs |-> bs, resp |-> r,
                 favs1 |-> favs1, notes1 |-> notes1, first |-> first,
                 favs2 |-> favs2, notes2 |-> notes2,
                 second |-> FetchList(first, r, favs2, notes2)]
  /\ UNCHANGED progVars

\* the rows a favorites table can show
FavRows == {b \in FlagBooks : b.is_favorite}

\* for (size_t i = 0; i < favorite_books_list.size();) from row i on; the
\* answers of the Remove button are taken from presses, call by call. What
\* is returned: the three lists after the pass and, for every iteration,
\* whether it advanced the index and whether it erased the row.
RECURSIVE TablePass(_, _, _, _, _, _)
TablePass(i, list, favs, bs, presses, iters) ==
  IF i > Len(list) THEN [list |-> list, favs |-> favs, bs |-> bs, iters |-> iters]
  ELSE LET pressed == presses # <<>> /\ Head(presses)
           rest == IF presses = <<>> THEN <<>> ELSE Tail(presses)
           key == list[i].key
           fav_it == Find(favs, key)
           b == FindBook(bs, key)
       IN IF ~pressed
          THEN TablePass(i + 1, list, favs, bs, rest,
                         Append(iters, [advanced |-> TRUE, erased |-> FALSE]))
          ELSE IF fav_it # 0
          THEN TablePass(i, EraseAt(list, i), EraseAt(favs, fav_it),
                         IF b # 0 THEN [bs EXCEPT ![b].is_favorite = FALSE] ELSE bs, rest,
                         Append(iters, [advanced |-> FALSE, erased |-> TRUE]))
          ELSE TablePass(i, list, favs, bs, rest,
                         Append(iters, [advanced |-> FALSE, erased |-> FALSE]))

\* one frame's pass over the favorites table
FnTablePass ==
  /\ fn = FnIdle
  /\ \E list \in SeqsUpTo(FavRows, MaxFav), favs \in SeqsUpTo(Keys, MaxFav),
        bs \in EarlierLists, presses \in SeqsUpTo(BOOLEAN, MaxPresses) :
       LET r == TablePass(1, list, favs, bs, presses, <<>>)
       IN fn' = [op |-> "pass", list |-> list, favs |-> favs, bs |-> bs,
                 presses |-> presses, after |-> r.list, favsAfter |-> r.favs,
                 bsAfter |-> r.bs, iters |-> r.iters]
  /\ UNCHANGED progVars

FnNext == FnRoundTrip \/ FnRefresh \/ FnBuildPath \/ FnFetchTwice \/ FnTablePass

FnSpec == Init /\ [][FnNext]_vars

\* ----------------------------------------------------------------- claims
SavePhase == {"save_fav", "save_notes", "done"}
LoadPhase == {"spawn_draw", "spawn_down", "set_page", "load_fav", "load_notes"}

\* the docs that have a non-null key and a non-null title
WellFormed(doc) == doc.key \notin {Absent, Null} /\ doc.title \notin {Absent, Null}

\* the key sequence of the complete list a response stands for
ExpectedKeys(r) == BookKeys(SelectSeq(r.docs, WellFormed))

\* the fetch of this response ends in one of the error branches
FetchFails(r) ==
  \/ r.kind \in {"none", "non200", "badjson", "throw"}
  \/ r.kind = "ok" /\ \E i \in DOMAIN r.docs : DocHasFields(r.docs[i]) /\ DocThrows(r.docs[i])

\* C1: while frames can run, every change of the result list installs the
\* complete list of the fetch in progress: the list a frame reads is the
\* previous complete list or the new complete list, never an intermediate.
C1_WholesaleReplace ==
  [][(gpc' = "frames" /\ BookKeys(books') # BookKeys(books))
       => BookKeys(books') = ExpectedKeys(resp')]_vars

\* C2: in every reachable state, a Book of the result list has its favorite
\* flag set if and only if its key is in the favorites list.
C2_FavoritesInSync ==
  \A i \in DOMAIN books : books[i].is_favorite <=> Contains(favorite_books, books[i].key)

\* C3: while a fetch that fails is in progress, no step changes the result
\* list and none raises data ready.
C3_FailedFetchKeepsList ==
  [][FetchFails(resp') => (BookKeys(books') = BookKeys(books) /\ data_ready' = data_ready)]_vars

\* C4: once the download task has observed start download, it reaches the
\* poll again with the flag cleared, and every fetch attempt, whatever its
\* outcome, ends by leaving the flag cleared.
C4_StartDownloadCleared ==
  /\ (dpc = "request") ~> (dpc = "poll" /\ ~start_download)
  /\ [][(dpc \in {"request", "docs", "push", "clearflag"} /\ dpc' = "poll") => ~start_download']_vars

\* C4 witness: a fetch that threw after pushing a Book has ended, and the
\* flag is cleared.
C4_Witness == dpc = "poll" /\ ~start_download /\ ~data_ready /\ books # <<>>

\* C5: start download is raised and exit is set only by steps of the draw
\* task; data ready is raised and start download is cleared only by steps
\* of the download task.
C5_SingleWriter ==
  [][/\ (~start_download /\ start_download') => DrawNext
     /\ (~exit_flag /\ exit_flag') => DrawNext
     /\ (~data_ready /\ data_ready') => DownloadNext
     /\ (start_download /\ ~start_download') => DownloadNext]_vars

\* C5 witness: every flag has been written by its writer.
C5_Witness == exit_flag /\ data_ready /\ ~start_download /\ dpc = "done"

\* C6: no step of the draw task or of the download task happens before main
\* has loaded favorites.txt and notes.json.
C6_LoadBeforeTasks ==
  [][(DrawNext \/ DownloadNext) => mpc \notin LoadPhase]_vars

\* C7: from the first save step on, both tasks have terminated, the store
\* no longer changes, and what is written to the two files is the favorites
\* list and the notes mapping of the store.
C7_SaveAfterJoin ==
  [][(mpc \in SavePhase \/ mpc' \in SavePhase) =>
       /\ dpc' = "done" /\ gpc' = "done"
       /\ (mpc \in SavePhase => favorite_books' = favorite_books /\ saved_notes' = saved_notes
                                  /\ books' = books)
       /\ (favFile' # favFile => favFile' = favorite_books)
       /\ (notesFile' # notesFile => notesFile' = saved_notes)]_vars

\* C7 witness: both files written, with favorites that differ from the
\* ones loaded.
C7_Witness ==
  /\ mpc = "done"
  /\ favFile = favorite_books /\ favFile # InitFavFile
  /\ notesFile = saved_notes

\* C8: once the window has closed the exit flag gets set; once it is set it
\* stays set, the download task terminates and main reaches the save steps.
C8_ExitTerminates ==
  /\ (gpc = "closed") ~> exit_flag
  /\ exit_flag ~> (dpc = "done" /\ mpc \in SavePhase)
  /\ [][exit_flag => exit_flag']_vars

\* C8 witness: the window closed with a submitted search still unserved,
\* and both tasks and main have terminated all the same.
C8_Witness == exit_flag /\ dpc = "done" /\ mpc = "done" /\ start_download

\* C9: when the fetch of a 200 response with a docs array ends, the result
\* list is exactly the docs with a non-null key and a non-null title, in
\* response order.
C9_SkipsBadDocs ==
  [][(dpc = "docs" /\ resp.hasDocs /\ dpc' = "clearflag")
       => BookKeys(books') = ExpectedKeys(resp)]_vars

\* C10: after Remove on a row with key k of the favorites view, k is not
\* in the favorites list, no Book with key k in the result list has its
\* flag set, and no row with key k is left in the display list.
C10_RemoveAllThree ==
  [][\A i \in DOMAIN favorite_books_list :
       DrawRemoveFavorite(i) =>
         LET k == favorite_books_list[i].key
         IN /\ ~Contains(favorite_books', k)
            /\ \A j \in DOMAIN books' : books'[j].key = k => ~books'[j].is_favorite
            /\ FindBook(favorite_books_list', k) = 0]_vars

\* C11: in every reachable state no key occurs more than once in the
\* favorites list.
C11_FavoritesUnique ==
  \A i, j \in DOMAIN favorite_books : favorite_books[i] = favorite_books[j] => i = j

\* C12: for every favorites list, the list read back by the load step from
\* what the save step wrote is the same list: same keys, same order, same
\* length.
C12_FavoritesRoundTrip == fn.op = "roundtrip" => fn.out = fn.favs

\* C13: when a fetch completes, every Book of the result list has its
\* favorite flag set if and only if its key is in the favorites list,
\* whatever the draw task did to the favorites list during the fetch.
C13_FlagMatchesFavorites ==
  [][DlReady => \A i \in DOMAIN books' :
                  books'[i].is_favorite <=> Contains(favorite_books', books'[i].key)]_vars

\* C14: when a successful fetch completes, the note overlay of every Book
\* of the result list holds the durable note of the Book's key under that
\* key if the durable notes mapping has one, and is empty otherwise.
C14_OverlayAfterFetch ==
  [][DlReady => \A i \in DOMAIN books' :
                  books'[i].notes = [k \in Keys |-> IF k = books'[i].key
                                                    THEN saved_notes'[k] ELSE NoNote]]_vars

\* C15: in every reachable state, every entry of the note overlay of a
\* Book of the result list equals the entry of saved_notes for its key.
C15_OverlayNeverDiverges ==
  \A i \in DOMAIN books : \A k \in Keys :
     books[i].notes[k] # NoNote => books[i].notes[k] = saved_notes[k]

\* C16: of the two tasks, only the download task writes the result list,
\* the fields of its Books included, and only the draw task writes the
\* favorites list, the notes mapping and the search parameters: no step of
\* the draw task changes the result list, and every step of the download
\* task leaves favorites, saved notes, search query, search type and
\* pagination unchanged.
C16_OwnershipSplit ==
  [][/\ (DrawNext \/ DrawNoteNext \/ DrawParamNext) => books' = books
     /\ DownloadNext => UNCHANGED <<favorite_books, saved_notes, paramVars>>]_vars

\* C17 as stated: a removal from within the favorites view invalidates the
\* display list, so that the next frame of the view refreshes it.
C17_RemoveInvalidates ==
  [][((\E i \in DOMAIN favorite_books_list : DrawRemoveFavorite(i))
        /\ favorite_books_list' # favorite_books_list) => needs_refresh']_vars

\* C17, amended: the frame that opens the favorites view, for the first
\* time or after a Close, refreshes the display list; while the view stays
\* open no refresh is pending, so no later frame refreshes or issues a
\* detail request, a frame after a removal from within the view included.
C17_RefreshOnOpenOnly ==
  [][/\ DrawShowFavorites => needs_refresh
     /\ favOpen' => ~needs_refresh'
     /\ (gpc' = "frames" /\ ~favOpen') => needs_refresh']_vars

\* C17 witness: the view is open after a removal from within it (the Book
\* k1 of the result list has lost its flag, the favorites list and the
\* display list are empty) and no refresh is pending.
C17_Witness ==
  /\ favOpen /\ ~needs_refresh
  /\ mpc = "join_down"
  /\ favorite_books = <<>> /\ favorite_books_list = <<>>
  /\ \E i \in DOMAIN books : books[i].key = "k1" /\ ~books[i].is_favorite

\* the work-detail response of a key makes the refresh drop the key: no
\* usable answer, no title, or an author reference with a null key
WorkFails(o) == o.status = "fail" \/ ~o.hasTitle \/ Contains(o.authors, "badkey")

\* the names of the authors whose detail request succeeded, in order
OkNames(key, authors) ==
  LET idx == [j \in 1..Len(authors) |-> j]
      sel == SelectSeq(idx, LAMBDA j : authors[j] = "ok")
  IN IF sel = <<>> THEN <<>> ELSE [i \in 1..Len(sel) |-> AuthorName(key, sel[i])]

\* the rows of a list that have the key
RowsOf(list, key) == {i \in DOMAIN list : list[i].key = key}

\* C18 as stated: a favorite whose work-detail request or parse fails, or
\* one of whose author-detail requests or parses fails, has no row in the
\* refreshed display list.
C18_OmittedOnAnyFailure ==
  fn.op = "refresh" =>
    \A k \in DOMAIN fn.out :
       (WorkFails(fn.out[k]) \/ Contains(fn.out[k].authors, "fail")) => RowsOf(fn.list, k) = {}

\* C18, amended: a favorite whose work-detail request or parse fails has no
\* row in the refreshed display list; a favorite whose work-detail response
\* is usable has exactly one row, with the names of the authors whose
\* detail request succeeded, a failed author-detail request leaving out
\* that name only; the seeded rows and the other favorites are unaffected.
C18_OmittedOnWorkFailure ==
  fn.op = "refresh" =>
    /\ SubSeq(fn.list, 1, Len(SeedList(fn.bs))) = SeedList(fn.bs)
    /\ \A k \in DOMAIN fn.out :
         IF WorkFails(fn.out[k]) THEN RowsOf(fn.list, k) = {}
         ELSE /\ Cardinality(RowsOf(fn.list, k)) = 1
              /\ \A i \in RowsOf(fn.list, k) :
                   fn.list[i] = DetailBook(k, OkNames(k, fn.out[k].authors))
    /\ Len(fn.list) = Len(SeedList(fn.bs))
                        + Cardinality({k \in DOMAIN fn.out : ~WorkFails(fn.out[k])})

\* C18 witness: in one refresh the work-detail request of k1 fails and k1
\* has no row, while k2, whose first author-detail request fails, has a
\* row with the name of its second author.
C18_Witness ==
  /\ fn.op = "refresh"
  /\ DOMAIN fn.out = {"k1", "k2"}
  /\ fn.out["k1"].status = "fail"
  /\ fn.out["k2"] = [status |-> "ok", hasTitle |-> TRUE, authors |-> <<"fail", "ok">>]
  /\ fn.list = <<DetailBook("k2", <<AuthorName("k2", 2)>>)>>

\* the author entries a refresh asks about: the references before the
\* first one with a null key
ReachedRefs(authors) ==
  LET idx == [j \in 1..Len(authors) |-> j]
  IN SelectSeq(idx, LAMBDA j : /\ authors[j] \in {"ok", "fail"}
                               /\ \A h \in 1..j : authors[h] # "badkey")

\* the requests of one turn of the refresh loop for a key without a row
TurnReqs(key, o) ==
  LET refs == IF o.status = "ok" /\ o.hasTitle THEN ReachedRefs(o.authors) ELSE <<>>
  IN <<WorkReq(key)>> \o (IF refs = <<>> THEN <<>>
                          ELSE [i \in 1..Len(refs) |-> AuthorReq(key, refs[i])])

\* entry p of the favorites list has no row when its turn comes: the
\* seeding gave it none and no earlier entry with the same key got one
AsksAt(f, p) ==
  /\ f.favs[p] \in DOMAIN f.out
  /\ \A q \in 1..(p - 1) : f.favs[q] = f.favs[p] => WorkFails(f.out[f.favs[p]])

\* the requests of the turns p, p + 1, ... in order
RECURSIVE ExpectedReqs(_, _)
ExpectedReqs(f, p) ==
  IF p > Len(f.favs) THEN <<>>
  ELSE (IF AsksAt(f, p) THEN TurnReqs(f.favs[p], f.out[f.favs[p]]) ELSE <<>>)
         \o ExpectedReqs(f, p + 1)

\* the positions of the log that hold the request
LogOf(reqs, r) == {i \in DOMAIN reqs : reqs[i] = r}

\* C19 as stated: the display list starts with the flagged Books of the
\* result list; every favorite key without a seeded row gets exactly one
\* work-detail request, and every author reference of its response exactly
\* one author-detail request; a key with a seeded row gets no request.
C19_OneRequestPerReference ==
  fn.op = "refresh" =>
    /\ SubSeq(fn.list, 1, Len(SeedList(fn.bs))) = SeedList(fn.bs)
    /\ \A i \in DOMAIN fn.reqs : fn.reqs[i].key \in DOMAIN fn.out
    /\ \A k \in DOMAIN fn.out :
         /\ Cardinality(LogOf(fn.reqs, WorkReq(k))) = 1
         /\ \A j \in DOMAIN fn.out[k].authors :
              fn.out[k].authors[j] \in {"ok", "fail"}
                => Cardinality(LogOf(fn.reqs, AuthorReq(k, j))) = 1

\* C19, amended: the display list starts with the flagged Books of the
\* result list; the log of requests is, for each entry of the favorites
\* list in order whose key has no row when its turn comes, one work-detail
\* request followed, when the response parses and has a title, by one
\* author-detail request per author reference in order up to the first
\* reference with a null key; keys with a row get no request.
C19_RequestsPerTurn ==
  fn.op = "refresh" =>
    /\ SubSeq(fn.list, 1, Len(SeedList(fn.bs))) = SeedList(fn.bs)
    /\ \A i \in DOMAIN fn.reqs : fn.reqs[i].key \in DOMAIN fn.out
    /\ fn.reqs = ExpectedReqs(fn, 1)

\* C19 witness: k1 is seeded from the result list and k2 is resolved with
\* one work-detail request and one request for each of its two authors.
C19_Witness ==
  /\ fn.op = "refresh"
  /\ fn.favs = <<"k1", "k2">>
  /\ BookKeys(SeedList(fn.bs)) = <<"k1">>
  /\ fn.out["k2"] = [status |-> "ok", hasTitle |-> TRUE, authors |-> <<"ok", "fail">>]
  /\ fn.reqs = <<WorkReq("k2"), AuthorReq("k2", 1), AuthorReq("k2", 2)>>
  /\ BookKeys(fn.list) = <<"k1", "k2">>

HexDigits == <<"0", "1", "2", "3", "4", "5", "6", "7", "8", "9", "A", "B", "C", "D", "E", "F">>

\* the standard percent-encoding of a text: letters, digits and - _ . ~
\* are kept, any other character becomes % and the two hex digits of its
\* code
RECURSIVE PercentEncoded(_)
PercentEncoded(value) ==
  IF value = <<>> THEN <<>>
  ELSE LET c == Head(value)
       IN (IF IsAlnum(c) \/ c \in {"-", "_", ".", "~"} THEN <<c>>
           ELSE <<"%", HexDigits[(CharCode[c] \div 16) + 1], HexDigits[(CharCode[c] % 16) + 1]>>)
            \o PercentEncoded(Tail(value))

\* C20: the request path of a fetch is "/search.json?", then "title=" for
\* the search type title and "author=" otherwise, then the search text with
\* every character other than letters, digits and - _ . ~ replaced by its
\* percent-encoding, then "&limit=" and the page size, "&page=" and the
\* page number, and the fields list.
C20_RequestPath ==
  fn.op = "path" =>
    fn.path = <<"/search.json?", IF fn.search_type = "title" THEN "title=" ELSE "author=">>
                \o PercentEncoded(fn.query)
                \o <<"&limit=", ToString(fn.results_per_page),
                     "&page=", ToString(fn.current_page), FieldsList>>

\* the positions of the download task inside a fetch
InFetch == {"request", "docs", "push"}

\* C21: a fetch that ends, by a failure or not, leaves the download task
\* alive, at the statement that lowers start download and returns to the
\* poll; the task ends only on the exit flag; a search request is issued
\* only from a poll that finds start download raised with exit not set,
\* and only a submit of the draw task raises it; and from a poll with the
\* flag raised and exit not set the task does issue a new request, unless
\* exit gets set first.
C21_FailureNoRetryNoExit ==
  /\ [][/\ (dpc \in InFetch /\ dpc' \notin InFetch) => dpc' = "clearflag"
        /\ dpc = "clearflag" /\ dpc' # dpc => (dpc' = "poll" /\ ~start_download')
        /\ (dpc # "done" /\ dpc' = "done") => exit_flag
        /\ (dpc # "request" /\ dpc' = "request")
             => (dpc = "poll" /\ start_download /\ ~exit_flag)
        /\ (dpc \notin InFetch /\ dpc' \in InFetch) => dpc' = "request"
        /\ (~start_download /\ start_download') => DrawSubmitSearch]_vars
  /\ (dpc = "poll" /\ start_download /\ ~exit_flag) ~> (dpc = "request" \/ exit_flag)

\* C21 witness: a fetch has failed after pushing a Book (the result list
\* is not empty and data ready was never set), the flag was lowered and
\* raised again, and the task is issuing the next request.
C21_Witness ==
  /\ dpc = "request"
  /\ ~data_ready /\ books # <<>>
  /\ ~exit_flag

\* C22 as stated: a second fetch of the same response with the same search
\* parameters leaves a result list identical to the one the first fetch
\* left, favorite flags and note overlays included.
C22_FetchIdempotent == fn.op = "fetch2" => fn.second = fn.first

\* C22, amended: a second fetch of the same response with the same search
\* parameters, the same favorites list and the same notes mapping leaves a
\* result list identical to the one the first fetch left.
C22_FetchIdempotentSameStore ==
  (fn.op = "fetch2" /\ fn.favs2 = fn.favs1 /\ fn.notes2 = fn.notes1) => fn.second = fn.first

\* C22 witness: both fetches found k1 a favorite with a note, and both left
\* the same list of two Books, the first with the flag and the note.
C22_Witness ==
  /\ fn.op = "fetch2"
  /\ fn.favs2 = fn.favs1 /\ fn.notes2 = fn.notes1
  /\ fn.bs # <<>>
  /\ BookKeys(fn.first) = <<"k1", "k2">>
  /\ fn.first[1].is_favorite /\ fn.first[1].notes["k1"] = "n1"
  /\ fn.second = fn.first

\* C23: whenever a submitted search text has not been read by a fetch and
\* exit is not set, a fetch that reads it is eventually performed, unless
\* exit gets set first.
C23_NoLostSubmission ==
  (query_pending /\ ~exit_flag) ~> (~query_pending \/ exit_flag)

\* C24: data ready is false initially, goes from false to true only in the
\* step that ends a successful fetch, and no step of any task sets it back
\* to false.
C24_DataReadyMonotone ==
  /\ ~data_ready
  /\ [][/\ data_ready => data_ready'
        /\ (~data_ready /\ data_ready') => DlReady]_vars

\* C24 witness: data ready is true while a later fetch has cleared the
\* result list and is rebuilding it from a response with docs.
C24_Witness ==
  /\ data_ready
  /\ dpc = "docs" /\ resp.hasDocs /\ di <= Len(resp.docs)
  /\ books = <<>>

\* C25: in one frame's pass over the favorites table every iteration of
\* the loop advances the index or erases the current row, also when Remove
\* is pressed on a row whose key is not in the favorites list.
C25_PassMakesProgress ==
  fn.op = "pass" =>
    \A n \in DOMAIN fn.iters : fn.iters[n].advanced \/ fn.iters[n].erased

====
